---- MODULE Spec2Model ----
(***************************************************************************)
(* configkit: resolution of a configuration value from a command-line      *)
(* flag, an environment variable and a default (Field[T].Value,            *)
(* MetaField.Value), and the reflection walkers built on it.               *)
(***************************************************************************)
EXTENDS Integers, Sequences, FiniteSets, TLC

VARIABLES
    environ,    \* the process environment: name -> [set, val]
    flags,      \* the variables the flag pointers refer to: address -> value
    fld,        \* the descriptor Value() is called on
    ret,        \* the outcome of the latest Value() call on fld
    heap,       \* the structures of the value handed to a walker: node -> fields
    out         \* the latest walker call: its arguments and its outcome

vars       == <<environ, flags, fld, ret, heap, out>>
structVars == <<heap, out>>

---------------------------------------------------------------------------
(* Values.  A Go value of one of the supported types, the untyped nil of   *)
(* `any`, or the panic that ends a call.  Every value is a record of the   *)
(* same shape so that two values of different types compare unequal.       *)

Nil      == [type |-> "nil",    s |-> "", n |-> 0, b |-> FALSE]
Panic    == [type |-> "panic",  s |-> "", n |-> 0, b |-> FALSE]
StrV(x)  == [type |-> "string", s |-> x,  n |-> 0, b |-> FALSE]
IntV(x)  == [type |-> "int",    s |-> "", n |-> x, b |-> FALSE]
BoolV(x) == [type |-> "bool",   s |-> "", n |-> 0, b |-> x]

Types == {"string", "bool", "int"}

\* *new(T): the zero value of a type
Zero(t) ==
    CASE t = "string" -> StrV("")
      [] t = "bool"   -> BoolV(FALSE)
      [] t = "int"    -> IntV(0)

\* the values an external flag parser may leave in a flag variable of type t
FlagValues(t) ==
    CASE t = "string" -> {StrV(""), StrV("from flag")}
      [] t = "bool"   -> {BoolV(FALSE), BoolV(TRUE)}
      [] t = "int"    -> {IntV(0), IntV(7)}

\* the default values a descriptor of type t is declared with
DefaultValues(t) ==
    CASE t = "string" -> {StrV("default value"), StrV("")}
      [] t = "bool"   -> {BoolV(FALSE), BoolV(TRUE)}
      [] t = "int"    -> {IntV(1), IntV(0)}

---------------------------------------------------------------------------
(* The environment.                                                        *)

EnvNames   == {"APP_FIELD_TWO"}
EnvStrings == {"", "10", "0", "true", "abc"}
Unset      == [set |-> FALSE, val |-> ""]

\* os.Getenv: the value of the variable, "" when it is not set
Getenv(key) ==
    IF key \in DOMAIN environ /\ environ[key].set THEN environ[key].val ELSE ""

\* strconv.Atoi with the error dropped: 0 for anything that is no numeral
Atoi(s) ==
    CASE s = "10" -> 10
      [] s = "0"  -> 0
      [] s = "1"  -> 1
      [] OTHER    -> 0

\* strconv.ParseBool with the error dropped: false for anything unparsable
ParseBool(s) ==
    CASE s \in {"1", "t", "T", "TRUE", "true", "True"} -> TRUE
      [] OTHER -> FALSE

Converters == {"nil", "ident", "Atoi", "ParseBool"}

\* f.EnvToValueFunc(v): calling a nil func panics
CallEnvToValueFunc(conv, v) ==
    CASE conv = "ident"     -> StrV(v)
      [] conv = "Atoi"      -> IntV(Atoi(v))
      [] conv = "ParseBool" -> BoolV(ParseBool(v))
      [] conv = "nil"       -> Panic

\* the converter the examples give a Field[T]
ConverterOf(t) ==
    CASE t = "string" -> "ident"
      [] t = "int"    -> "Atoi"
      [] t = "bool"   -> "ParseBool"

---------------------------------------------------------------------------
(* Descriptors.  One record shape serves Field[T] and MetaField; a field   *)
(* the struct does not have keeps a fixed value and is never read.         *)

NilPtr == "nilptr"
Addrs  == {"flag", "flagOne", "flagTwo", "flagThree", "flagFour"}

RuleNames == {"flagRule", "envRule", "defaultValueRule",
              "nilRule", "zeroRule", "falseRule"}

MaxRules == 2

RECURSIVE SeqsUpTo(_, _)
SeqsUpTo(S, n) ==
    IF n = 0 THEN {<<>>}
    ELSE LET shorter == SeqsUpTo(S, n - 1)
         IN  shorter \cup {Append(q, x) : q \in {r \in shorter : Len(r) = n - 1}, x \in S}

\* Field[T], config.go
MkField(t, flagp, def, mapName, envKey, noEnv, conv) ==
    [kind |-> "Field", T |-> t, FlagP |-> flagp, DefaultValue |-> def,
     FieldName |-> "", MapFieldName |-> mapName, EnvKey |-> envKey,
     NoEnv |-> noEnv, EnvToValueFunc |-> conv, ValueRules |-> <<>>]

\* MetaField; T is the type of the variable FlagValueP points at
MkMetaField(name, flagp, t, def, envKey, conv, rules) ==
    [kind |-> "MetaField", T |-> t, FlagP |-> flagp, DefaultValue |-> def,
     FieldName |-> name, MapFieldName |-> "", EnvKey |-> envKey,
     NoEnv |-> FALSE, EnvToValueFunc |-> conv, ValueRules |-> rules]

---------------------------------------------------------------------------
(* Field[T].Value                                                          *)

Field_Value_EnvFirst(f) ==
    IF Getenv(f.EnvKey) # "" /\ (f.EnvToValueFunc # "nil" \/ ~f.NoEnv)
    THEN CallEnvToValueFunc(f.EnvToValueFunc, Getenv(f.EnvKey))
    ELSE IF f.FlagP # NilPtr /\ flags[f.FlagP] # Zero(f.T)
    THEN flags[f.FlagP]
    ELSE f.DefaultValue

Field_Value_Cached(f) ==
    IF ret.st # "none" THEN ret.val
    ELSE IF f.FlagP # NilPtr /\ flags[f.FlagP] # Zero(f.T)
    THEN flags[f.FlagP]
    ELSE IF Getenv(f.EnvKey) # "" /\ (f.EnvToValueFunc # "nil" \/ ~f.NoEnv)
    THEN CallEnvToValueFunc(f.EnvToValueFunc, Getenv(f.EnvKey))
    ELSE f.DefaultValue

Field_Value_SkipNilConv(f) ==
    IF f.FlagP # NilPtr /\ flags[f.FlagP] # Zero(f.T)
    THEN flags[f.FlagP]
    ELSE IF Getenv(f.EnvKey) # "" /\ f.EnvToValueFunc # "nil"
    THEN CallEnvToValueFunc(f.EnvToValueFunc, Getenv(f.EnvKey))
    ELSE f.DefaultValue

Field_Value(f) ==
    \* 1. Flag Value
    IF f.FlagP # NilPtr /\ flags[f.FlagP] # Zero(f.T)
    THEN flags[f.FlagP]
    \* 2. Environment Variable Value
    ELSE IF Getenv(f.EnvKey) # "" /\ (f.EnvToValueFunc # "nil" \/ ~f.NoEnv)
    THEN CallEnvToValueFunc(f.EnvToValueFunc, Getenv(f.EnvKey))
    \* 3. Explicit Default Value
    ELSE f.DefaultValue

---------------------------------------------------------------------------
(* MetaField.Value                                                         *)

flagRule(m) ==
    IF m.FlagP = NilPtr THEN Nil
    ELSE IF flags[m.FlagP] = Zero(flags[m.FlagP].type) THEN Nil
    ELSE flags[m.FlagP]

envRule(m) ==
    IF m.EnvKey = "" THEN Nil
    ELSE IF Getenv(m.EnvKey) = "" THEN Nil
    ELSE IF m.EnvToValueFunc = "nil" THEN StrV(Getenv(m.EnvKey))
    ELSE CallEnvToValueFunc(m.EnvToValueFunc, Getenv(m.EnvKey))

defaultValueRule(m) == m.DefaultValue

defaultRules == <<"flagRule", "envRule", "defaultValueRule">>

\* ruleFunc(m), for the built-in rules and for the rules a caller supplies
CallRule(rule, m) ==
    CASE rule = "flagRule"         -> flagRule(m)
      [] rule = "envRule"          -> envRule(m)
      [] rule = "defaultValueRule" -> defaultValueRule(m)
      [] rule = "nilRule"          -> Nil
      [] rule = "zeroRule"         -> IntV(0)
      [] rule = "falseRule"        -> BoolV(FALSE)

\* the loop of MetaField.Value from rule i on; called is the list of the
\* rules evaluated so far
RECURSIVE RunRules(_, _, _, _)
RunRules(rules, m, i, called) ==
    IF i > Len(rules) THEN [val |-> Nil, called |-> called]
    ELSE LET result == CallRule(rules[i], m)
         IN  IF result # Nil
             THEN [val |-> result, called |-> Append(called, rules[i])]
             ELSE RunRules(rules, m, i + 1, Append(called, rules[i]))

RECURSIVE RunRules_ZeroAbsent(_, _, _, _)
RunRules_ZeroAbsent(rules, m, i, called) ==
    IF i > Len(rules) THEN [val |-> Nil, called |-> called]
    ELSE LET result == CallRule(rules[i], m)
         IN  IF result # Nil /\ (result.type \notin Types \/ result # Zero(result.type))
             THEN [val |-> result, called |-> Append(called, rules[i])]
             ELSE RunRules_ZeroAbsent(rules, m, i + 1, Append(called, rules[i]))

MetaField_Run_ZeroAbsent(m) ==
    RunRules_ZeroAbsent(IF Len(m.ValueRules) = 0 THEN defaultRules ELSE m.ValueRules,
                        m, 1, <<>>)

MetaField_Run(m) ==
    RunRules(IF Len(m.ValueRules) = 0 THEN defaultRules ELSE m.ValueRules, m, 1, <<>>)

MetaField_Value(m) == MetaField_Run(m).val

\* Value() of a descriptor of either kind, with the rules it evaluated
Resolve(f) ==
    IF f.kind = "Field"
    THEN [val |-> Field_Value(f), called |-> <<>>]
    ELSE MetaField_Run(f)

---------------------------------------------------------------------------
(* The resolution state machine: one descriptor, the environment and the   *)
(* flag variable changing under it, and Value() called at any time.        *)

\* Field[T] descriptors: FlagP, DefaultValue and the converter's result are
\* of type T
FieldsOf(t) ==
    {MkField(t, p, d, "", k, ne, c) :
        p \in {NilPtr, "flag"}, d \in DefaultValues(t),
        k \in {"", "APP_FIELD_TWO"}, ne \in BOOLEAN, c \in {"nil", ConverterOf(t)}}

Fields == UNION {FieldsOf(t) : t \in Types}

\* what FlagValueP holds: nil, or a pointer to a variable of some type
FlagPointers == {<<NilPtr, "int">>} \cup {<<"flag", t>> : t \in Types}

\* MetaField descriptors resolved by the built-in rules; every field is `any`
MetaFields ==
    {MkMetaField("FieldTwo", fp[1], fp[2], d, k, c, <<>>) :
        fp \in FlagPointers,
        d \in {Nil, StrV("default value"), IntV(1), BoolV(FALSE)},
        k \in {"", "APP_FIELD_TWO"}, c \in Converters}

\* MetaField descriptors with caller-supplied ValueRules
RuleFields ==
    {MkMetaField("FieldTwo", fp[1], fp[2], d, "APP_FIELD_TWO", c, rs) :
        fp \in {<<NilPtr, "int">>, <<"flag", "int">>},
        d \in {Nil, IntV(1)}, c \in {"nil", "Atoi"},
        rs \in SeqsUpTo(RuleNames, MaxRules) \ {<<>>}}

Descriptors == Fields \cup MetaFields \cup RuleFields

NoCall == [st |-> "none", val |-> Nil, called |-> <<>>]

Init ==
    /\ fld \in Descriptors
    /\ environ = [k \in EnvNames |-> Unset]
    /\ flags = [a \in Addrs |-> Zero(fld.T)]
    /\ ret = NoCall
    /\ heap = <<>> /\ out = <<>>

Stale(r) == IF r.st = "none" THEN r ELSE [r EXCEPT !.st = "stale"]

\* os.Setenv(k, v)
Setenv ==
    \E k \in EnvNames, v \in EnvStrings :
        /\ environ' = [environ EXCEPT ![k] = [set |-> TRUE, val |-> v]]
        /\ ret' = Stale(ret)
        /\ UNCHANGED <<flags, fld>>
        /\ UNCHANGED structVars

\* os.Unsetenv(k)
Unsetenv ==
    \E k \in EnvNames :
        /\ environ[k].set
        /\ environ' = [environ EXCEPT ![k] = Unset]
        /\ ret' = Stale(ret)
        /\ UNCHANGED <<flags, fld>>
        /\ UNCHANGED structVars

\* the flag parser stores a value in the flag variable
WriteFlag ==
    \E a \in Addrs : \E v \in FlagValues(flags[a].type) :
        /\ fld.FlagP = a
        /\ flags' = [flags EXCEPT ![a] = v]
        /\ ret' = Stale(ret)
        /\ UNCHANGED <<environ, fld>>
        /\ UNCHANGED structVars

\* fld.Value()
CallValue ==
    /\ ret' = [st |-> "fresh", val |-> Resolve(fld).val, called |-> Resolve(fld).called]
    /\ UNCHANGED <<environ, flags, fld>>
    /\ UNCHANGED structVars

Next == Setenv \/ Unsetenv \/ WriteFlag \/ CallValue

Spec == Init /\ [][Next]_vars

---------------------------------------------------------------------------
(* What the claims speak of.                                               *)

\* the flag pointer is there and the variable it points at is not zero
FlagNonZero(f) ==
    f.FlagP # NilPtr /\ flags[f.FlagP] # Zero(flags[f.FlagP].type)

\* the content of the environment variable the descriptor names, "" when
\* it names none or the variable is unset
EnvString(f) ==
    IF f.EnvKey \in EnvNames /\ environ[f.EnvKey].set
    THEN environ[f.EnvKey].val ELSE ""

\* Field[T].Value, and MetaField.Value with no ValueRules
BuiltIn(f) == f.kind = "Field" \/ Len(f.ValueRules) = 0

Called == ret.st = "fresh"

C2_NoEnvSkipsEnvironment ==
    (Called /\ fld.kind = "Field" /\ fld.NoEnv) =>
        ret.val = IF FlagNonZero(fld) THEN flags[fld.FlagP] ELSE fld.DefaultValue

\* the environment-sensitive descriptors whose cascade the claims agree on
Plain(f) == BuiltIn(f) /\ f.EnvToValueFunc # "nil" /\ ~f.NoEnv

\* flag, then environment, then default, on the state as it is now
Cascade(f) ==
    IF FlagNonZero(f) THEN flags[f.FlagP]
    ELSE IF EnvString(f) # "" THEN CallEnvToValueFunc(f.EnvToValueFunc, EnvString(f))
    ELSE f.DefaultValue

\* C4: a Value() call changes neither the descriptor, the flag variable nor
\* the environment; it returns what the cascade yields on the state at that
\* moment; and it returns what the previous call returned when nothing has
\* changed in between.
C4_NoCaching ==
    [][ret'.st = "fresh" =>
           /\ UNCHANGED <<environ, flags, fld>>
           /\ Plain(fld) => ret'.val = Cascade(fld)'
           /\ ret.st = "fresh" => ret'.val = ret.val]_vars

\* FieldTwo of the example after os.Setenv("APP_FIELD_TWO", "10")
C4_Witness ==
    /\ Called /\ fld.kind = "Field" /\ fld.T = "int" /\ fld.FlagP # NilPtr
    /\ fld.DefaultValue = IntV(1) /\ fld.EnvKey = "APP_FIELD_TWO"
    /\ fld.EnvToValueFunc = "Atoi" /\ ~fld.NoEnv
    /\ flags[fld.FlagP] = IntV(0) /\ EnvString(fld) = "10"
    /\ ret.val = IntV(10)

\* the environment tier is reached and there is no converter
NoConverterAtEnvTier(f) ==
    /\ BuiltIn(f) /\ ~FlagNonZero(f) /\ ~f.NoEnv
    /\ EnvString(f) # "" /\ f.EnvToValueFunc = "nil"

Least(S) == CHOOSE i \in S : \A j \in S : i <= j

\* C10: with ValueRules, Value() returns the result of the first rule whose
\* result is not nil (a zero value counts), having evaluated the rules up to
\* that one and no other; nil when every rule returns nil.  Without
\* ValueRules it evaluates the three built-in rules in their order.
C10_RuleChain ==
    (Called /\ fld.kind = "MetaField") =>
        LET rs   == fld.ValueRules
            hits == {i \in 1..Len(rs) : CallRule(rs[i], fld) # Nil}
        IN  /\ (Len(rs) > 0 /\ hits = {}) => ret.val = Nil /\ ret.called = rs
            /\ (Len(rs) > 0 /\ hits # {}) =>
                   /\ ret.val = CallRule(rs[Least(hits)], fld)
                   /\ ret.called = SubSeq(rs, 1, Least(hits))
            /\ Len(rs) = 0 =>
                   /\ Len(ret.called) \in 1..3
                   /\ ret.called = SubSeq(defaultRules, 1, Len(ret.called))

\* a rule returning 0 ends the chain before the flag rule, flag set or not
C10_Witness ==
    /\ Called /\ fld.ValueRules = <<"zeroRule", "flagRule">>
    /\ FlagNonZero(fld) /\ EnvString(fld) = "10"
    /\ ret.val = IntV(0) /\ ret.called = <<"zeroRule">>

\* the descriptor is declared with one semantic type: DefaultValue is a
\* string, a boolean or an integer, the flag variable (if any) is of that
\* type, and so is what the converter (if any) returns
WellTyped(f) ==
    /\ f.DefaultValue.type \in Types
    /\ f.FlagP # NilPtr => f.T = f.DefaultValue.type
    /\ f.EnvToValueFunc \in {"nil", ConverterOf(f.DefaultValue.type)}

\* C11: whenever Value() of a descriptor resolved by the built-in cascade
\* (Field[T], or MetaField without ValueRules) returns, the value returned
\* is of the semantic type of the descriptor's DefaultValue, in every state
\* of the environment and of the flag variable.
C11_ResolvedType ==
    (Called /\ BuiltIn(fld) /\ WellTyped(fld) /\ ret.val # Panic) =>
        ret.val.type = fld.DefaultValue.type

---------------------------------------------------------------------------
(* Structures.  A structure is the sequence of its fields in declaration   *)
(* order; heap[n] holds the fields of structure n and structure 1 is the   *)
(* one a walker is called on, as such or through a pointer.  A field holds *)
(* a descriptor, a nested structure (by value or through a pointer), a     *)
(* pointer to a descriptor, a nil pointer, or something else.              *)

MaxSize == 3
MaxMeta == 2

NoDesc == [kind |-> "none", T |-> "int", FlagP |-> NilPtr, DefaultValue |-> Nil,
           FieldName |-> "", MapFieldName |-> "", EnvKey |-> "",
           NoEnv |-> FALSE, EnvToValueFunc |-> "nil", ValueRules |-> <<>>]

\* Field[T] of the traversal test: Name and Value
MkTField(name, value) ==
    [NoDesc EXCEPT !.kind = "TField", !.T = value.type,
                   !.FieldName = name, !.DefaultValue = value]

\* a struct field: its name, whether it is exported, and what it holds
MkStructField(name, exported, kind, d, child) ==
    [name |-> name, exported |-> exported, kind |-> kind, d |-> d, child |-> child]

Leaf(name, kind)  == MkStructField(name, TRUE, kind, NoDesc, 0)
Desc(name, d)     == MkStructField(name, TRUE, "desc", d, 0)
Sub(name, child)  == MkStructField(name, TRUE, "struct", NoDesc, child)

\* the names of the fields of a structure built field by field
StructFieldNames ==
    <<"FieldOne", "FieldTwo", "FieldThree", "FieldFour", "FieldFive", "FieldSix">>

\* the fields of a descriptor seen as an ordinary structure: none of them
\* is a structure or a descriptor
DescFields(d) ==
    CASE d.kind = "TField" -> <<Leaf("Name", "prim"), Leaf("Value", "prim")>>
      [] d.kind = "Field"  ->
            <<Leaf("FlagP", IF d.FlagP = NilPtr THEN "nilptr" ELSE "pprim"),
              Leaf("DefaultValue", "prim"), Leaf("FlagName", "prim"),
              Leaf("MapFieldName", "prim"), Leaf("Usage", "prim"),
              Leaf("EnvKey", "prim"), Leaf("NoEnv", "prim"),
              Leaf("StringOverrideFunc", "prim"), Leaf("CobraSetupFunc", "prim"),
              Leaf("EnvToValueFunc", "prim"), Leaf("Metadata", "prim")>>
      [] OTHER ->
            <<Leaf("FieldName", "prim"), Leaf("EnvKey", "prim"),
              Leaf("DefaultValue", "prim"), Leaf("FlagValueP", "prim"),
              Leaf("Metadata", "prim"), Leaf("CobraSetupFunc", "prim"),
              Leaf("EnvToValueFunc", "prim"), Leaf("ValueRules", "prim")>>

\* the field, or what a pointer field points at, is of kind reflect.Struct
\* (kinds: desc, pdesc, struct, pstruct, nilptr, pprim, prim)
IsStructAfterElem(field) == field.kind \in {"desc", "pdesc", "struct", "pstruct"}

\* the fields of that structure
StructValue(field) ==
    IF field.kind \in {"struct", "pstruct"} THEN heap[field.child]
    ELSE DescFields(field.d)

\* what a walker may be handed: a structure, a pointer to one, a primitive,
\* a nil pointer, a pointer to a primitive, a pointer to a pointer to a
\* structure, or the untyped nil
RootKinds == {"struct", "pstruct", "prim", "nilptr", "pprim", "ppstruct", "nil"}

\* reflect.ValueOf(v).Kind()
KindOf(v) ==
    CASE v = "struct" -> "Struct"
      [] v \in {"pstruct", "nilptr", "pprim", "ppstruct"} -> "Pointer"
      [] v = "prim" -> "Int"
      [] v = "nil"  -> "Invalid"

\* reflect.ValueOf(v).Elem().Kind() of a pointer; the Elem of a nil pointer
\* is the zero Value, of kind Invalid
ElemKind(v) ==
    CASE v = "pstruct"  -> "Struct"
      [] v = "nilptr"   -> "Invalid"
      [] v = "pprim"    -> "Int"
      [] v = "ppstruct" -> "Pointer"

RootIsStruct_DerefAll(v) == v \in {"struct", "pstruct", "ppstruct"}

\* reflect.ValueOf(v), dereferenced once when v is a pointer, is a structure
RootIsStruct(v) ==
    (IF KindOf(v) = "Pointer" THEN ElemKind(v) ELSE KindOf(v)) = "Struct"

NoOut == [op |-> "none"]

Size == LET RECURSIVE Sum(_)
            Sum(n) == IF n = 0 THEN 0 ELSE Len(heap[n]) + Sum(n - 1)
        IN  Sum(Len(heap))

\* the structures are written down in order: a field is added to structure
\* n only while the structures after n are still empty
Open(n, max) ==
    /\ n \in 1..Len(heap)
    /\ Size < max
    /\ Len(heap[n]) < Len(StructFieldNames)
    /\ \A m \in (n + 1)..Len(heap) : heap[m] = <<>>

NextName(n) == StructFieldNames[Len(heap[n]) + 1]

\* a Field[int] declared as field i of structure n gets a default of its
\* own, so that the values of two descriptors can be told apart
Declared(d, n, i) ==
    IF d.kind = "Field" /\ d.T = "int"
    THEN [d EXCEPT !.DefaultValue = IntV(10 * n + i)]
    ELSE d

\* a field that is no nested structure is declared in structure n
AddLeaf(choices, max) ==
    \E n \in 1..Len(heap), c \in choices :
        /\ Open(n, max)
        /\ heap' = [heap EXCEPT ![n] =
                       Append(@, MkStructField(NextName(n), c[1], c[2],
                                               Declared(c[3], n, Len(@) + 1), 0))]
        /\ out' = NoOut
        /\ UNCHANGED <<environ, flags, fld, ret>>

\* a nested structure is declared in structure n: by value, by pointer, or
\* by value in an unexported field
AddStruct(max) ==
    \E n \in 1..Len(heap),
       c \in {<<TRUE, "struct">>, <<TRUE, "pstruct">>, <<FALSE, "struct">>} :
        /\ Open(n, max)
        /\ heap' = Append([heap EXCEPT ![n] =
                       Append(@, MkStructField(NextName(n), c[1], c[2], NoDesc,
                                               Len(heap) + 1))], <<>>)
        /\ out' = NoOut
        /\ UNCHANGED <<environ, flags, fld, ret>>

\* a second pointer to a structure declared earlier
ShareStruct ==
    \E n \in 1..Len(heap) : \E m \in (n + 1)..Len(heap) :
        /\ Open(n, MaxSize)
        /\ heap' = [heap EXCEPT ![n] =
                       Append(@, MkStructField(NextName(n), TRUE, "pstruct", NoDesc, m))]
        /\ out' = NoOut
        /\ UNCHANGED <<environ, flags, fld, ret>>

\* os.Setenv("APP_FIELD_TWO", "10") before a walker is called
SetenvTen ==
    /\ ~environ["APP_FIELD_TWO"].set
    /\ environ' = [environ EXCEPT !["APP_FIELD_TWO"] = [set |-> TRUE, val |-> "10"]]
    /\ out' = NoOut
    /\ UNCHANGED <<flags, fld, ret, heap>>

---------------------------------------------------------------------------
(* The traversal test: getConfigFieldsStack and getConfigFieldsRecursive.  *)

\* case Field[string], Field[bool], Field[int]
IsTField(field) == field.kind = "desc" /\ field.d.kind = "TField"

\* the for loop over the fields of val, from field i on
RECURSIVE StackScan(_, _, _, _)
StackScan(val, i, nonConfigFields, configFields) ==
    IF i > Len(val)
    THEN [nonConfigFields |-> nonConfigFields, configFields |-> configFields]
    ELSE IF ~val[i].exported
    THEN StackScan(val, i + 1, nonConfigFields, configFields)
    ELSE IF IsTField(val[i])
    THEN StackScan(val, i + 1, nonConfigFields, Append(configFields, val[i].d))
    ELSE IF ~IsStructAfterElem(val[i])
    THEN StackScan(val, i + 1, nonConfigFields, configFields)
    ELSE StackScan(val, i + 1, Append(nonConfigFields, StructValue(val[i])), configFields)

RECURSIVE StackLoop(_, _)
StackLoop(nonConfigFields, configFields) ==
    IF Len(nonConfigFields) = 0 THEN configFields
    ELSE LET val  == nonConfigFields[Len(nonConfigFields)]
             rest == SubSeq(nonConfigFields, 1, Len(nonConfigFields) - 1)
             scan == StackScan(val, 1, rest, configFields)
         IN  StackLoop(scan.nonConfigFields, scan.configFields)

getConfigFieldsStack_RootOnly(v) ==
    IF ~RootIsStruct(v) THEN [panic |-> TRUE, fields |-> <<>>]
    ELSE [panic |-> FALSE, fields |-> StackScan(heap[1], 1, <<>>, <<>>).configFields]

getConfigFieldsStack(v) ==
    IF ~RootIsStruct(v) THEN [panic |-> TRUE, fields |-> <<>>]
    ELSE [panic |-> FALSE, fields |-> StackLoop(<<heap[1]>>, <<>>)]

\* the for loop of getConfigFieldsRecursive over the fields of val, from
\* field i on
RECURSIVE RecursiveScan(_, _)
RecursiveScan(val, i) ==
    IF i > Len(val) THEN <<>>
    ELSE IF ~val[i].exported
    THEN RecursiveScan(val, i + 1)
    ELSE IF IsTField(val[i])
    THEN <<val[i].d>> \o RecursiveScan(val, i + 1)
    ELSE IF ~IsStructAfterElem(val[i])
    THEN RecursiveScan(val, i + 1)
    ELSE RecursiveScan(StructValue(val[i]), 1) \o RecursiveScan(val, i + 1)

getConfigFieldsRecursive(v) ==
    IF ~RootIsStruct(v) THEN [panic |-> TRUE, fields |-> <<>>]
    ELSE [panic |-> FALSE, fields |-> RecursiveScan(heap[1], 1)]

\* TestConfig of the traversal test: three descriptors in the root and
\* three in each of ConfigA and ConfigB
Example9 ==
    << <<Leaf("Name", "prim"),
         Desc("FieldOne",   MkTField("field-one-1-base-config", StrV("some value 1"))),
         Desc("FieldTwo",   MkTField("field-two-2-base-config", BoolV(TRUE))),
         Desc("FieldThree", MkTField("field-three-3-base-config", IntV(32))),
         Sub("ConfigA", 2), Sub("ConfigB", 3)>>,
       <<Leaf("Name", "prim"),
         Desc("FieldFour", MkTField("field-four-4-config-a", StrV("some other value for field 4"))),
         Desc("FieldFive", MkTField("field-five-5-config-a", BoolV(FALSE))),
         Desc("FieldSix",  MkTField("field-six-6-config-a", IntV(32089)))>>,
       <<Leaf("Name", "prim"),
         Desc("FieldSeven", MkTField("field-seven-7-config-b", StrV("Some 7th value"))),
         Desc("FieldEight", MkTField("field-eight-8-config-b", BoolV(TRUE))),
         Desc("FieldNine",  MkTField("field-nine-9-config-b", IntV(1)))>> >>

\* what a field of a structure under the traversal test may hold, besides a
\* nested structure: <<exported, kind, descriptor>>
WalkLeaves ==
    {<<TRUE, "desc", MkTField("f", IntV(1))>>, <<TRUE, "desc", MkTField("g", IntV(2))>>,
     <<FALSE, "desc", MkTField("f", IntV(1))>>, <<TRUE, "pdesc", MkTField("f", IntV(1))>>,
     <<TRUE, "nilptr", NoDesc>>, <<TRUE, "prim", NoDesc>>}

InitWalk ==
    /\ heap \in {<< <<>> >>, Example9}
    /\ out = NoOut
    /\ environ = [k \in EnvNames |-> Unset]
    /\ flags = [a \in Addrs |-> Zero("int")]
    /\ fld = NoDesc /\ ret = NoCall

\* main of the traversal test: both walkers on the same value
CallTraversals ==
    \E v \in {"struct", "pstruct"} :
        /\ out' = [op |-> "traversals", v |-> v,
                   stack |-> getConfigFieldsStack(v),
                   recrs |-> getConfigFieldsRecursive(v)]
        /\ UNCHANGED <<environ, flags, fld, ret, heap>>

NextWalk ==
    AddLeaf(WalkLeaves, MaxSize) \/ AddStruct(MaxSize) \/ ShareStruct \/ CallTraversals

SpecWalk == InitWalk /\ [][NextWalk]_vars

\* the number of times x occurs in the sequence q
Count(q, x) == Cardinality({i \in 1..Len(q) : q[i] = x})

\* the same elements with the same multiplicities
SameMultiset(p, q) ==
    /\ Len(p) = Len(q)
    /\ \A i \in 1..Len(p) : Count(p, p[i]) = Count(q, p[i])

\* C9: on every root structure the stack walker and the recursive walker
\* return the same descriptors with the same multiplicities; on the example
\* of three descriptors in the root and three in each of two sub-structures
\* both return those nine.
C9_TraversalEquivalence ==
    out.op = "traversals" =>
        /\ out.stack.panic = out.recrs.panic
        /\ SameMultiset(out.stack.fields, out.recrs.fields)
        /\ heap = Example9 =>
               /\ Len(out.stack.fields) = 9
               /\ \A n \in 1..3 : \A i \in 2..4 :
                      Count(out.stack.fields, heap[n][i].d) = 1

\* the two walkers return the nine descriptors of the example in different
\* orders
C9_Witness ==
    /\ out.op = "traversals" /\ heap = Example9
    /\ Len(out.recrs.fields) = 9
    /\ out.stack.fields # out.recrs.fields

---------------------------------------------------------------------------
(* ConfigFieldMap                                                          *)

EmptyMap == <<>>

\* the entries of b written over those of a, key by key
Overwrite(a, b) ==
    [k \in DOMAIN a \cup DOMAIN b |-> IF k \in DOMAIN b THEN b[k] ELSE a[k]]

RECURSIVE ConfigFieldMapLoop_Flat(_, _, _)
ConfigFieldMapLoop_Flat(val, i, results) ==
    IF i > Len(val) THEN [panic |-> FALSE, m |-> results]
    ELSE IF val[i].exported /\ val[i].kind = "desc" /\ val[i].d.kind = "Field"
    THEN LET name  == IF val[i].d.MapFieldName = "" THEN val[i].name
                      ELSE val[i].d.MapFieldName
             value == Field_Value(val[i].d)
         IN  IF value = Panic \/ name \in DOMAIN results
             THEN [panic |-> TRUE, m |-> <<>>]
             ELSE ConfigFieldMapLoop_Flat(val, i + 1, (name :> value) @@ results)
    ELSE ConfigFieldMapLoop_Flat(val, i + 1, results)

\* the for loop of ConfigFieldMap over the fields of val, from field i on;
\* a panic anywhere ends the whole call
RECURSIVE ConfigFieldMapLoop(_, _, _)
ConfigFieldMapLoop(val, i, results) ==
    IF i > Len(val) THEN [panic |-> FALSE, m |-> results]
    ELSE IF ~val[i].exported
    THEN ConfigFieldMapLoop(val, i + 1, results)
    ELSE IF val[i].kind = "desc" /\ val[i].d.kind = "Field"
    THEN \* case Field[string], Field[bool], Field[int]
         LET name  == IF val[i].d.MapFieldName = "" THEN val[i].name
                      ELSE val[i].d.MapFieldName
             value == Field_Value(val[i].d)
         IN  IF value = Panic \/ name \in DOMAIN results
             THEN [panic |-> TRUE, m |-> EmptyMap]
             ELSE ConfigFieldMapLoop(val, i + 1, Overwrite(results, name :> value))
    ELSE IF ~IsStructAfterElem(val[i])
    THEN ConfigFieldMapLoop(val, i + 1, results)
    ELSE \* a nested structure: name is still "" where its keys are checked
         LET sub == ConfigFieldMapLoop(StructValue(val[i]), 1, EmptyMap)
         IN  IF sub.panic \/ (DOMAIN sub.m # {} /\ "" \in DOMAIN results)
             THEN [panic |-> TRUE, m |-> EmptyMap]
             ELSE ConfigFieldMapLoop(val, i + 1, Overwrite(results, sub.m))

ConfigFieldMap(v) ==
    IF ~RootIsStruct(v) THEN [panic |-> TRUE, m |-> EmptyMap]
    ELSE ConfigFieldMapLoop(heap[1], 1, EmptyMap)

\* what a field of a structure handed to ConfigFieldMap may hold, besides a
\* nested structure: <<exported, kind, descriptor>>
MapLeaves ==
    {<<TRUE, "desc", MkField("int", NilPtr, IntV(0), k, "", FALSE, "nil")>> :
        k \in {"", "FieldTwo", "alt"}}
    \cup {<<TRUE, "desc", MkField("int", NilPtr, IntV(1), "field2", "APP_FIELD_TWO",
                                  FALSE, "Atoi")>>,
          <<FALSE, "desc", MkField("int", NilPtr, IntV(0), "", "", FALSE, "nil")>>,
          <<TRUE, "pdesc", MkField("int", NilPtr, IntV(0), "", "", FALSE, "nil")>>,
          <<TRUE, "nilptr", NoDesc>>, <<TRUE, "prim", NoDesc>>}

\* Field{}: the descriptor with nothing set
ZeroField(t) == MkField(t, NilPtr, Zero(t), "", "", FALSE, "nil")

\* Config of TestGetConfigFields: three descriptors in the root and three
\* in each of ConfigA and ConfigB
ExampleMap9 ==
    << <<Leaf("Name", "prim"),
         Desc("FieldOne", ZeroField("string")), Desc("FieldTwo", ZeroField("bool")),
         Desc("FieldThree", ZeroField("int")),
         Sub("ConfigA", 2), Sub("ConfigB", 3)>>,
       <<Leaf("Name", "prim"),
         Desc("FieldFour", ZeroField("string")), Desc("FieldFive", ZeroField("bool")),
         Desc("FieldSix", ZeroField("int"))>>,
       <<Leaf("Name", "prim"),
         Desc("FieldSeven", ZeroField("string")), Desc("FieldEight", ZeroField("bool")),
         Desc("FieldNine", ZeroField("int"))>> >>

InitMap ==
    /\ heap \in {<< <<>> >>, ExampleMap9}
    /\ out = NoOut
    /\ environ = [k \in EnvNames |-> Unset]
    /\ flags = [a \in Addrs |-> Zero("int")]
    /\ fld = NoDesc /\ ret = NoCall

\* ConfigFieldMap(v) on the structure, or on a pointer to it
CallConfigFieldMap ==
    \E v \in {"struct", "pstruct"} :
        /\ out.op = "none"
        /\ out' = [op |-> "ConfigFieldMap", v |-> v] @@ ConfigFieldMap(v)
        /\ UNCHANGED <<environ, flags, fld, ret, heap>>

NextMap ==
    AddLeaf(MapLeaves, MaxSize) \/ AddStruct(MaxSize) \/ SetenvTen \/ CallConfigFieldMap

SpecMap == InitMap /\ [][NextMap]_vars

\* the keys of the Field descriptors held by value in exported fields of val
\* and of the structures nested in it, one per descriptor
RECURSIVE DescriptorKeys(_, _)
DescriptorKeys(val, i) ==
    IF i > Len(val) THEN <<>>
    ELSE IF ~val[i].exported THEN DescriptorKeys(val, i + 1)
    ELSE IF val[i].kind = "desc"
    THEN <<IF val[i].d.MapFieldName = "" THEN val[i].name ELSE val[i].d.MapFieldName>>
         \o DescriptorKeys(val, i + 1)
    ELSE IF val[i].kind \in {"struct", "pstruct"}
    THEN DescriptorKeys(heap[val[i].child], 1) \o DescriptorKeys(val, i + 1)
    ELSE DescriptorKeys(val, i + 1)

HasDuplicate(q) == \E i, j \in 1..Len(q) : i # j /\ q[i] = q[j]

\* C3: ConfigFieldMap panics whenever two descriptors of the root structure
\* or of its nested structures resolve to the same key; with all keys
\* distinct it returns a map with an entry under each key.
C3_FlatteningUniqueness ==
    out.op = "ConfigFieldMap" =>
        LET keys == DescriptorKeys(heap[1], 1)
        IN  /\ HasDuplicate(keys) => out.panic
            /\ ~HasDuplicate(keys) =>
                   ~out.panic /\ DOMAIN out.m = {keys[i] : i \in 1..Len(keys)}

\* the exported fields of val, and of the structures nested in it, that
\* hold a Field descriptor by value
RECURSIVE FieldsByValue(_, _)
FieldsByValue(val, i) ==
    IF i > Len(val) THEN <<>>
    ELSE IF ~val[i].exported THEN FieldsByValue(val, i + 1)
    ELSE IF val[i].kind = "desc" /\ val[i].d.kind = "Field"
    THEN <<val[i]>> \o FieldsByValue(val, i + 1)
    ELSE IF val[i].kind \in {"struct", "pstruct"}
    THEN FieldsByValue(heap[val[i].child], 1) \o FieldsByValue(val, i + 1)
    ELSE FieldsByValue(val, i + 1)

---------------------------------------------------------------------------
(* AllMetaFields and ApplyValues                                           *)

\* case MetaField, on the field or on what it points at
IsMetaField(field) == field.kind \in {"desc", "pdesc"} /\ field.d.kind = "MetaField"

\* the for loop of AllMetaFields over the fields of val, from field i on
RECURSIVE AllMetaFieldsScan(_, _, _, _)
AllMetaFieldsScan(val, i, structs, results) ==
    IF i > Len(val) THEN [structs |-> structs, results |-> results]
    ELSE IF ~IsStructAfterElem(val[i]) \/ ~val[i].exported
    THEN AllMetaFieldsScan(val, i + 1, structs, results)
    ELSE IF IsMetaField(val[i])
    THEN AllMetaFieldsScan(val, i + 1, structs, Append(results, val[i].d))
    ELSE AllMetaFieldsScan(val, i + 1, Append(structs, StructValue(val[i])), results)

RECURSIVE AllMetaFieldsLoop_Queue(_, _)
AllMetaFieldsLoop_Queue(structs, results) ==
    IF Len(structs) = 0 THEN results
    ELSE LET scan == AllMetaFieldsScan(Head(structs), 1, Tail(structs), results)
         IN  AllMetaFieldsLoop_Queue(scan.structs, scan.results)

\* for len(structs) > 0: pop the last structure and scan it
RECURSIVE AllMetaFieldsLoop(_, _)
AllMetaFieldsLoop(structs, results) ==
    IF Len(structs) = 0 THEN results
    ELSE LET val  == structs[Len(structs)]
             rest == SubSeq(structs, 1, Len(structs) - 1)
             scan == AllMetaFieldsScan(val, 1, rest, results)
         IN  AllMetaFieldsLoop(scan.structs, scan.results)

AllMetaFields_RootOnly(v) ==
    IF ~RootIsStruct(v) THEN [panic |-> TRUE, fields |-> <<>>]
    ELSE [panic |-> FALSE, fields |-> AllMetaFieldsScan(heap[1], 1, <<>>, <<>>).results]

AllMetaFields(v) ==
    IF ~RootIsStruct(v) THEN [panic |-> TRUE, fields |-> <<>>]
    ELSE [panic |-> FALSE, fields |-> AllMetaFieldsLoop(<<heap[1]>>, <<>>)]

\* Config of the example: the type of each field of the destination
ConfigType ==
    [FieldOne |-> "string", FieldTwo |-> "int", FieldThree |-> "bool", FieldFour |-> "int"]

\* Config{}
ZeroConfig == [name \in DOMAIN ConfigType |-> Zero(ConfigType[name])]

\* a destination whose fields are already set
PresetConfig ==
    [FieldOne |-> StrV("old"), FieldTwo |-> IntV(5), FieldThree |-> BoolV(TRUE),
     FieldFour |-> IntV(6)]

SetFieldByName_KeepZero(config, name, value) ==
    IF name \notin DOMAIN config THEN [panic |-> TRUE, config |-> config]
    ELSE IF value.type # ConfigType[name] THEN [panic |-> TRUE, config |-> config]
    ELSE IF value = Zero(value.type) THEN [panic |-> FALSE, config |-> config]
    ELSE [panic |-> FALSE, config |-> [config EXCEPT ![name] = value]]

\* configField.Set(reflect.ValueOf(value)) with configField the field of
\* config named name: it panics when there is no such field, when value is
\* nil and when value is not of the field's type
SetFieldByName(config, name, value) ==
    IF name \notin DOMAIN config THEN [panic |-> TRUE, config |-> config]
    ELSE IF value.type # ConfigType[name] THEN [panic |-> TRUE, config |-> config]
    ELSE [panic |-> FALSE, config |-> [config EXCEPT ![name] = value]]

\* for _, metaField := range metaFields, from the i-th on
RECURSIVE ApplyLoop(_, _, _)
ApplyLoop(metaFields, i, config) ==
    IF i > Len(metaFields) THEN [err |-> "", panic |-> FALSE, config |-> config]
    ELSE LET set == SetFieldByName(config, metaFields[i].FieldName,
                                   MetaField_Value(metaFields[i]))
         IN  IF set.panic THEN [err |-> "", panic |-> TRUE, config |-> set.config]
             ELSE ApplyLoop(metaFields, i + 1, set.config)

ErrNotPointer == "config is not a pointer"

ApplyValues_WalkFirst(kind, config, v) ==
    LET metaFields == AllMetaFields(v)
    IN  IF metaFields.panic THEN [err |-> "", panic |-> TRUE, config |-> config]
        ELSE IF kind # "pstruct"
        THEN [err |-> ErrNotPointer, panic |-> FALSE, config |-> config]
        ELSE ApplyLoop(metaFields.fields, 1, config)

ApplyValues_FromZero(kind, config, v) ==
    IF kind # "pstruct"
    THEN [err |-> ErrNotPointer, panic |-> FALSE, config |-> config]
    ELSE LET metaFields == AllMetaFields(v)
         IN  IF metaFields.panic THEN [err |-> "", panic |-> TRUE, config |-> config]
             ELSE ApplyLoop(metaFields.fields, 1, ZeroConfig)

\* ApplyValues(config, metaConfig): config is a structure (kind "struct") or
\* a pointer to one (kind "pstruct"), v is what metaConfig is
ApplyValues(kind, config, v) ==
    IF kind # "pstruct"
    THEN [err |-> ErrNotPointer, panic |-> FALSE, config |-> config]
    ELSE LET metaFields == AllMetaFields(v)
         IN  IF metaFields.panic THEN [err |-> "", panic |-> TRUE, config |-> config]
             ELSE ApplyLoop(metaFields.fields, 1, config)

\* metaConfig of the example: FieldOne, FieldTwo, FieldThree and, in
\* SubConfig, FieldFour, each with a flag variable of its own
ExampleMeta ==
    << <<Desc("FieldOne", MkMetaField("FieldOne", "flagOne", "string",
                              StrV("default value"), "APP_FIELD_ONE", "ident", <<>>)),
         Desc("FieldTwo", MkMetaField("FieldTwo", "flagTwo", "int",
                              IntV(1), "APP_FIELD_TWO", "Atoi", <<>>)),
         Desc("FieldThree", MkMetaField("FieldThree", "flagThree", "bool",
                              BoolV(FALSE), "APP_FIELD_THREE", "ParseBool", <<>>)),
         Sub("SubConfig", 2)>>,
       <<Leaf("SomeOtherField", "prim"),
         Desc("FieldFour", MkMetaField("FieldFour", "flagFour", "int",
                              IntV(2), "APP_FIELD_FOUR", "Atoi", <<>>))>> >>

ExampleFlags ==
    [a \in Addrs |->
        CASE a = "flagOne"   -> Zero("string")
          [] a = "flagThree" -> Zero("bool")
          [] OTHER           -> Zero("int")]

\* what a field of a structure handed to ApplyValues may hold, besides a
\* nested structure: <<exported, kind, descriptor>>
ApplyLeaves ==
    {<<TRUE, "desc", d>> : d \in
        {MkMetaField("FieldOne", NilPtr, "int", StrV("default value"), "", "nil", <<>>),
         MkMetaField("FieldTwo", NilPtr, "int", IntV(1), "APP_FIELD_TWO", "Atoi", <<>>),
         MkMetaField("FieldThree", NilPtr, "int", BoolV(FALSE), "", "nil", <<>>),
         MkMetaField("FieldTwo", NilPtr, "int", IntV(2), "", "nil", <<>>),
         MkMetaField("Missing", NilPtr, "int", IntV(1), "", "nil", <<>>),
         MkMetaField("FieldOne", NilPtr, "int", IntV(1), "", "nil", <<>>),
         MkMetaField("FieldThree", NilPtr, "int", Nil, "", "nil", <<>>)}}
    \cup {<<TRUE, "pdesc", MkMetaField("FieldFour", NilPtr, "int", IntV(2), "", "nil", <<>>)>>,
          <<FALSE, "desc", MkMetaField("FieldFour", NilPtr, "int", IntV(2), "", "nil", <<>>)>>,
          <<TRUE, "nilptr", NoDesc>>, <<TRUE, "prim", NoDesc>>}

\* a metaConfig whose root and two sub-structures each hold a descriptor
\* for the same field of the destination
ExampleDup ==
    << <<Desc("FieldTwo", MkMetaField("FieldTwo", NilPtr, "int", IntV(1), "", "nil", <<>>)),
         Sub("SubA", 2), Sub("SubB", 3)>>,
       <<Desc("FieldTwo", MkMetaField("FieldTwo", NilPtr, "int", IntV(2), "", "nil", <<>>))>>,
       <<Desc("FieldTwo", MkMetaField("FieldTwo", NilPtr, "int", IntV(3), "", "nil", <<>>))>> >>

InitApply ==
    /\ heap \in {<< <<>> >>, ExampleMeta, ExampleDup}
    /\ out = NoOut
    /\ environ = [k \in EnvNames |-> Unset]
    /\ flags = ExampleFlags
    /\ fld = NoDesc /\ ret = NoCall

\* config := c; ApplyValues(config, metaConfig) or ApplyValues(&config,
\* metaConfig), once the structures are declared; out.before is config
\* before the call and out.config after
CallApplyValues ==
    \E kind \in {"struct", "pstruct"}, c \in {ZeroConfig, PresetConfig},
       v \in {"struct", "pstruct", "prim"} :
        LET r == ApplyValues(kind, c, v)
        IN  /\ out.op = "none"
            /\ out' = [op |-> "ApplyValues", kind |-> kind, before |-> c, v |-> v,
                       err |-> r.err, panic |-> r.panic, config |-> r.config]
            /\ UNCHANGED <<environ, flags, fld, ret, heap>>

NextApply ==
    AddLeaf(ApplyLeaves, MaxMeta) \/ AddStruct(MaxMeta) \/ SetenvTen \/ CallApplyValues

SpecApply == InitApply /\ [][NextApply]_vars

\* the MetaField descriptors held, by value or through a pointer, in the
\* exported fields of val and of the structures nested in it
RECURSIVE MetaDescriptors(_, _)
MetaDescriptors(val, i) ==
    IF i > Len(val) THEN <<>>
    ELSE IF ~val[i].exported THEN MetaDescriptors(val, i + 1)
    ELSE IF val[i].kind \in {"desc", "pdesc"}
    THEN <<val[i].d>> \o MetaDescriptors(val, i + 1)
    ELSE IF val[i].kind \in {"struct", "pstruct"}
    THEN MetaDescriptors(heap[val[i].child], 1) \o MetaDescriptors(val, i + 1)
    ELSE MetaDescriptors(val, i + 1)

Discovered == MetaDescriptors(heap[1], 1)

\* the descriptor names a field of Config of the type of its resolved value
Fits(d) ==
    /\ d.FieldName \in DOMAIN ConfigType
    /\ MetaField_Value(d).type = ConfigType[d.FieldName]

\* ApplyValues(&config, metaConfig) was called on a structure or a pointer
\* to one
Applied ==
    out.op = "ApplyValues" /\ out.kind = "pstruct" /\ out.v \in {"struct", "pstruct"}

\* C6: when the discovered descriptors have pairwise distinct FieldNames,
\* each naming a field of the destination of the type of its value,
\* ApplyValues returns nil and the field named d.FieldName holds d.Value()
\* for every descriptor d; on the example with nothing set the destination
\* is {"default value", 1, false, 2}.
C6_EndToEndApply ==
    (/\ Applied
     /\ ~HasDuplicate([i \in 1..Len(Discovered) |-> Discovered[i].FieldName])
     /\ \A i \in 1..Len(Discovered) : Fits(Discovered[i])) =>
        /\ ~out.panic /\ out.err = ""
        /\ \A i \in 1..Len(Discovered) :
               out.config[Discovered[i].FieldName] = MetaField_Value(Discovered[i])
        /\ (heap = ExampleMeta /\ ~environ["APP_FIELD_TWO"].set) =>
               out.config = [FieldOne |-> StrV("default value"), FieldTwo |-> IntV(1),
                             FieldThree |-> BoolV(FALSE), FieldFour |-> IntV(2)]

\* the example applied to a destination that held other values: the false
\* default is written over true
C6_Witness ==
    /\ Applied /\ heap = ExampleMeta /\ ~environ["APP_FIELD_TWO"].set
    /\ out.before = PresetConfig /\ ~out.panic /\ out.err = ""
    /\ out.config = [FieldOne |-> StrV("default value"), FieldTwo |-> IntV(1),
                     FieldThree |-> BoolV(FALSE), FieldFour |-> IntV(2)]

\* C7: called with a destination that is no pointer, ApplyValues returns the
\* error 'config is not a pointer' without panicking, whatever the source
\* is, and leaves destination, source and environment as they were.
C7_NotAPointer ==
    [][(out'.op = "ApplyValues" /\ out'.kind = "struct") =>
           /\ out'.err = ErrNotPointer /\ ~out'.panic
           /\ out'.config = out'.before
           /\ UNCHANGED <<heap, environ, flags>>]_vars

\* a destination by value and a source that is no structure
C7_Witness ==
    /\ out.op = "ApplyValues" /\ out.kind = "struct" /\ out.v = "prim"
    /\ out.err = ErrNotPointer /\ ~out.panic
    /\ out.before = PresetConfig /\ out.config = PresetConfig

\* C8: when a discovered descriptor names no field of the destination, or
\* its resolved value (nil included) is not of the type of the field it
\* names, ApplyValues returns a non-nil error and does not panic.
C8_MismatchIsAnError ==
    (Applied /\ \E i \in 1..Len(Discovered) : ~Fits(Discovered[i])) =>
        ~out.panic /\ out.err # ""

\* the descriptors held in the exported fields of val, in declaration order
RECURSIVE OwnDescriptors(_, _)
OwnDescriptors(val, i) ==
    IF i > Len(val) THEN <<>>
    ELSE IF val[i].exported /\ val[i].kind \in {"desc", "pdesc"}
    THEN <<val[i].d>> \o OwnDescriptors(val, i + 1)
    ELSE OwnDescriptors(val, i + 1)

\* stack order: the descriptors of val itself, then those of the structures
\* nested in it, the structure declared last first
RECURSIVE StackOrder(_)
RECURSIVE NestedFromLast(_, _)
StackOrder(val) == OwnDescriptors(val, 1) \o NestedFromLast(val, Len(val))

NestedFromLast(val, i) ==
    IF i = 0 THEN <<>>
    ELSE IF val[i].exported /\ val[i].kind \in {"struct", "pstruct"}
    THEN StackOrder(heap[val[i].child]) \o NestedFromLast(val, i - 1)
    ELSE NestedFromLast(val, i - 1)

\* the greatest element of a non-empty set of numbers
Greatest(S) == CHOOSE i \in S : \A j \in S : j <= i

\* C16: descriptors sharing a FieldName do not make ApplyValues fail.
\* AllMetaFields returns the root's own descriptors in declaration order,
\* then those of the nested structures with the sibling declared last
\* first; ApplyValues writes in that order, so that a field named by several
\* descriptors ends with the value of the last of them, a nested
\* descriptor overriding a root descriptor of the same FieldName.
C16_DuplicateFieldName ==
    LET order == StackOrder(heap[1])
    IN  (Applied /\ \A i \in 1..Len(order) : Fits(order[i])) =>
            /\ ~out.panic /\ out.err = ""
            /\ AllMetaFields(out.v).fields = order
            /\ \A name \in DOMAIN ConfigType :
                   LET at == {i \in 1..Len(order) : order[i].FieldName = name}
                   IN  at # {} =>
                           out.config[name] = MetaField_Value(order[Greatest(at)])

\* the root declares FieldTwo = 1, SubA FieldTwo = 2 and SubB FieldTwo = 3:
\* SubB is walked before SubA and the destination ends with 2
C16_Witness ==
    /\ Applied /\ heap = ExampleDup /\ ~out.panic /\ out.err = ""
    /\ out.before = PresetConfig
    /\ out.config = [PresetConfig EXCEPT !.FieldTwo = IntV(2)]

\* C17: a call of ApplyValues that returns nil leaves every field of the
\* destination that no discovered descriptor names as it was, gives every
\* field that a descriptor names the resolved value of a descriptor naming
\* it, whatever the field held before, and changes neither the source
\* structure with its descriptors, nor the flag variables, nor the
\* environment.
C17_ApplyFrame ==
    [][(/\ out'.op = "ApplyValues" /\ out'.kind = "pstruct"
        /\ ~out'.panic /\ out'.err = "") =>
           /\ \A name \in DOMAIN ConfigType :
                  LET naming == {i \in 1..Len(Discovered) : Discovered[i].FieldName = name}
                  IN  /\ naming = {} => out'.config[name] = out'.before[name]
                      /\ naming # {} =>
                             \E i \in naming :
                                 out'.config[name] = MetaField_Value(Discovered[i])
           /\ DOMAIN out'.config = DOMAIN out'.before
           /\ UNCHANGED <<heap, flags, environ, fld>>]_vars

\* one descriptor, for FieldTwo, resolved from the environment: FieldTwo of
\* a pre-set destination is overwritten and the other fields keep their
\* values
C17_Witness ==
    /\ Applied /\ ~out.panic /\ out.err = ""
    /\ Len(heap) = 1 /\ Len(Discovered) = 1 /\ Discovered[1].FieldName = "FieldTwo"
    /\ out.before = PresetConfig
    /\ out.config = [PresetConfig EXCEPT !.FieldTwo = IntV(10)]

---------------------------------------------------------------------------
(* The walkers side by side: each of the four called on one structure that *)
(* holds descriptors of every kind, by value and through pointers, and on  *)
(* roots of every shape.                                                   *)

Walkers ==
    {"AllMetaFields", "ConfigFieldMap", "getConfigFieldsStack", "getConfigFieldsRecursive"}

\* what a field may hold, besides a nested structure: a descriptor of each
\* of the three types by value or through a pointer, a nil pointer, or a
\* primitive
WalkerLeaves ==
    {<<TRUE, k, d>> :
        k \in {"desc", "pdesc"},
        d \in {MkTField("f", IntV(1)),
               MkField("int", NilPtr, IntV(0), "", "", FALSE, "nil"),
               MkMetaField("FieldTwo", NilPtr, "int", IntV(1), "", "nil", <<>>)}}
    \cup {<<TRUE, "nilptr", NoDesc>>, <<TRUE, "prim", NoDesc>>}

InitWalkers ==
    /\ heap = << <<>> >>
    /\ out = NoOut
    /\ environ = [k \in EnvNames |-> Unset]
    /\ flags = [a \in Addrs |-> Zero("int")]
    /\ fld = NoDesc /\ ret = NoCall

\* w(v): what the call leaves, a panic or the list or map returned
RunWalker(w, v) ==
    CASE w = "AllMetaFields" ->
            [panic |-> AllMetaFields(v).panic, fields |-> AllMetaFields(v).fields,
             m |-> EmptyMap]
      [] w = "ConfigFieldMap" ->
            [panic |-> ConfigFieldMap(v).panic, fields |-> <<>>,
             m |-> ConfigFieldMap(v).m]
      [] w = "getConfigFieldsStack" ->
            [panic |-> getConfigFieldsStack(v).panic,
             fields |-> getConfigFieldsStack(v).fields, m |-> EmptyMap]
      [] w = "getConfigFieldsRecursive" ->
            [panic |-> getConfigFieldsRecursive(v).panic,
             fields |-> getConfigFieldsRecursive(v).fields, m |-> EmptyMap]

\* one of the walkers is called on a root of some shape
CallWalker ==
    \E w \in Walkers, v \in RootKinds :
        /\ out.op = "none"
        /\ out' = [op |-> w, v |-> v] @@ RunWalker(w, v)
        /\ UNCHANGED <<environ, flags, fld, ret, heap>>

NextWalkers == AddLeaf(WalkerLeaves, MaxMeta) \/ AddStruct(MaxMeta) \/ CallWalker

SpecWalkers == InitWalkers /\ [][NextWalkers]_vars

\* C12: AllMetaFields and ConfigFieldMap give for a pointer to a structure
\* what they give for the structure itself; for every other root (a
\* primitive, a nil pointer, the untyped nil, a pointer to a primitive, a
\* pointer to a pointer) they panic at the root check, with nothing
\* collected and nothing returned.
C12_RootShape ==
    out.op \in {"AllMetaFields", "ConfigFieldMap"} =>
        /\ out.v \in {"struct", "pstruct"} =>
               [panic |-> out.panic, fields |-> out.fields, m |-> out.m]
                   = RunWalker(out.op, "struct")
        /\ out.v \notin {"struct", "pstruct"} =>
               out.panic /\ out.fields = <<>> /\ out.m = EmptyMap

\* a pointer to a pointer to a structure that holds a descriptor: the panic,
\* where the structure itself gives a map with that descriptor
C12_Witness ==
    /\ out.op = "ConfigFieldMap" /\ out.v = "ppstruct" /\ out.panic
    /\ \E i \in 1..Len(heap[1]) : heap[1][i].kind = "desc" /\ heap[1][i].d.kind = "Field"
    /\ ~ConfigFieldMap("struct").panic /\ DOMAIN ConfigFieldMap("struct").m # {}

\* the type of descriptor a walker looks for
DescriptorKindOf(w) ==
    CASE w = "AllMetaFields"  -> "MetaField"
      [] w = "ConfigFieldMap" -> "Field"
      [] OTHER                -> "TField"

\* the exported fields of val, and of the structures nested in it, that
\* hold a descriptor of kind k by value or through a non-nil pointer
RECURSIVE HeldDescriptors(_, _, _)
HeldDescriptors(val, i, k) ==
    IF i > Len(val) THEN <<>>
    ELSE IF ~val[i].exported THEN HeldDescriptors(val, i + 1, k)
    ELSE IF val[i].kind \in {"desc", "pdesc"} /\ val[i].d.kind = k
    THEN <<val[i]>> \o HeldDescriptors(val, i + 1, k)
    ELSE IF val[i].kind \in {"struct", "pstruct"}
    THEN HeldDescriptors(heap[val[i].child], 1, k) \o HeldDescriptors(val, i + 1, k)
    ELSE HeldDescriptors(val, i + 1, k)

\* the key of the descriptor held in a struct field
KeyOf(field) ==
    IF field.d.MapFieldName = "" THEN field.name ELSE field.d.MapFieldName

\* C14: each walker, called on a structure or a pointer to one, collects the
\* descriptors held through non-nil pointers like those held by value: the
\* list returned holds every such descriptor once, the map returned has an
\* entry under the key of each; and a nil pointer field makes no walker
\* panic.
C14_PointerDescriptors ==
    (out.op \in Walkers /\ out.v \in {"struct", "pstruct"}) =>
        LET held == HeldDescriptors(heap[1], 1, DescriptorKindOf(out.op))
            keys == [i \in 1..Len(held) |-> KeyOf(held[i])]
        IN  /\ (out.op = "ConfigFieldMap" /\ ~HasDuplicate(keys)) =>
                   ~out.panic /\ DOMAIN out.m = {keys[i] : i \in 1..Len(keys)}
            /\ out.op # "ConfigFieldMap" =>
                   /\ ~out.panic
                   /\ SameMultiset(out.fields, [i \in 1..Len(held) |-> held[i].d])

---------------------------------------------------------------------------
(* AllMetaFields, one iteration of its outer loop at a time, on structures *)
(* whose pointer fields may be shared or refer back to an enclosing        *)
(* structure.  out holds the locals of the running call: the stack         *)
(* structs, the list results, and the number of structures popped so far.  *)

MaxPops == 9

\* a pointer field of structure n that refers to n itself or to a structure
\* declared before it
LinkBack ==
    \E n \in 1..Len(heap) : \E m \in 1..n :
        /\ Open(n, MaxSize)
        /\ heap' = [heap EXCEPT ![n] =
                       Append(@, MkStructField(NextName(n), TRUE, "pstruct", NoDesc, m))]
        /\ out' = NoOut
        /\ UNCHANGED <<environ, flags, fld, ret>>

LoopLeaves ==
    {<<TRUE, "desc", MkMetaField("FieldTwo", NilPtr, "int", IntV(1), "", "nil", <<>>)>>,
     <<TRUE, "prim", NoDesc>>}

InitLoop ==
    /\ heap = << <<>> >>
    /\ out = NoOut
    /\ environ = [k \in EnvNames |-> Unset]
    /\ flags = [a \in Addrs |-> Zero("int")]
    /\ fld = NoDesc /\ ret = NoCall

\* AllMetaFields(v) up to the outer loop: the root check, results and
\* structs := []reflect.Value{val}
EnterAllMetaFields ==
    \E v \in {"struct", "pstruct", "prim"} :
        /\ out.op = "none"
        /\ out' = [op |-> "AllMetaFields", v |-> v,
                   pc |-> IF RootIsStruct(v) THEN "loop" ELSE "panic",
                   structs |-> IF RootIsStruct(v) THEN <<heap[1]>> ELSE <<>>,
                   results |-> <<>>, pops |-> 0]
        /\ UNCHANGED <<environ, flags, fld, ret, heap>>

\* one iteration of for len(structs) > 0: the last structure is popped and
\* its fields are scanned
PopStruct ==
    /\ out.op = "AllMetaFields" /\ out.pc = "loop"
    /\ Len(out.structs) > 0
    /\ out.pops < MaxPops
    /\ LET val  == out.structs[Len(out.structs)]
           rest == SubSeq(out.structs, 1, Len(out.structs) - 1)
           scan == AllMetaFieldsScan(val, 1, rest, out.results)
       IN  out' = [out EXCEPT !.structs = scan.structs, !.results = scan.results,
                              !.pops = @ + 1]
    /\ UNCHANGED <<environ, flags, fld, ret, heap>>

\* the stack is empty: return results
ReturnResults ==
    /\ out.op = "AllMetaFields" /\ out.pc = "loop"
    /\ Len(out.structs) = 0
    /\ out' = [out EXCEPT !.pc = "done"]
    /\ UNCHANGED <<environ, flags, fld, ret, heap>>

NextLoop ==
    \/ AddLeaf(LoopLeaves, MaxSize) \/ AddStruct(MaxSize) \/ ShareStruct \/ LinkBack
    \/ EnterAllMetaFields \/ PopStruct \/ ReturnResults

SpecLoop == InitLoop /\ [][NextLoop]_vars

\* two to the power n
RECURSIVE Pow2(_)
Pow2(n) == IF n = 0 THEN 1 ELSE 2 * Pow2(n - 1)

\* C15: AllMetaFields terminates on every root structure, pointer fields
\* that are shared or refer back to an enclosing structure included: the
\* number of structures it pops stays bounded.  Each iteration pops one
\* structure, so the call returns exactly when that number is bounded; a
\* structure is popped once for each path of fields leading to it, and a
\* structure of n fields without back references has fewer than 2^n paths.
C15_Termination ==
    (out.op = "AllMetaFields" /\ out.pc # "panic") => out.pops <= Pow2(Size)

====
